---- MODULE Spec2Model ----
(***************************************************************************)
(* Bar-by-bar model of HybridMomentumReversionStrategy                      *)
(* (src/strategies/hybrid_momentum_reversion_strategy.py) driven by the     *)
(* backtrader engine the runners start with cerebro.run().                  *)
(*                                                                          *)
(* Arithmetic: prices, cash and portfolio value are integers in one money   *)
(* unit.  The code's float expressions are evaluated exactly (as rationals, *)
(* by cross-multiplying); int() is truncation toward zero.                  *)
(*                                                                          *)
(* Bars are flat (open = high = low = close), so a market order submitted   *)
(* in next() on bar b is executed at the close of bar b+1.                  *)
(*                                                                          *)
(* Also modelled: LocalDataLoader.load_stock_data (src/data_loader.py) on   *)
(* small files, and the loop of run_multi_stock_backtest_parallel           *)
(* (src/backtest_runner.py), which loads and simulates one symbol at a time;*)
(* RSIGapStrategy (src/strategies/rsi_gap_strategy.py); and the download    *)
(* and selection loops of src/data_collector.py.                            *)
(***************************************************************************)
EXTENDS Integers, Sequences, FiniteSets

\* ------------------------------------------------------------------ bounds
\* strategy parameters, scaled down from the defaults 200 / 60 / 20
TrendPeriod == 3
MomentumPeriod == 2
RebalanceDays == 2
\* broker.setcash(initial_cash), scaled down from 100000
InitialCash == 200
\* number of bars of a run
MaxBars == 7
\* latest first bar of an instrument, in bars after the start of the run
MaxStart == 1

\* closing prices a bar can have: in a run of one data, and in a run of
\* several datas
Prices == {4, 6, 7, 9}
MultiPrices == {4, 6, 9}

\* ------------------------------------------------------- program constants
EntryThresholdPct == 101
ExitThresholdPct == 99
PositionPct == 95
FixedCap == 20
MomentumCrashLevel == -5
\* default of the parameter position_size (0.95), in percent
PositionSizeDefault == 95

\* closing prices in a crowded universe
CrowdPrices == {4, 9}
\* a crowded universe: more datas than the cash can buy one share each for
CrowdCount == FixedCap + 4

\* len(self.datas) of the runs checked: one data, two datas whose prices move
\* independently, a universe of one data more than the fixed cap, whose
\* datas follow one common price path, and a crowded universe, whose last
\* data follows a path of its own
InstrumentCounts == {1, 2, FixedCap + 1, CrowdCount}

VARIABLES
  n,          \* len(self.datas)
  start,      \* start[i]: bars of the run before data i has its first bar
  bar,        \* len(self): bars delivered so far
  phase,      \* "feed": the engine delivers the next bar; "next": next() is
              \* due; "aborted": an exception left next(); "call" / "returned":
              \* before / after a single call of _enter_long_position;
              \* "load" / "loaded": before / after a call of load_stock_data
              \* that returns; "sweep": between two symbols of a sweep;
              \* "exited": after sys.exit; "filter": at the head of the loop
              \* of filter_high_volume_stocks_sequential; "download": inside
              \* download_stock_data; "downloaded": after it returned;
              \* "filtered": after the loop
  hist,       \* hist[i]: the last Window closes of data i, newest last
  stance,     \* self.position_states
  lastReb,    \* self.last_rebalance
  pos,        \* broker position size per data
  cash,       \* broker cash
  orders,     \* orders submitted by the last next(), in submission order
  stance0,    \* position_states as they were when the last next() began
  err,        \* exception that ended the run, or "none"
  position_size,  \* self.p.position_size, in percent
  tradeValue, \* tradeValue[i]: value (size * price) of the open trade of
              \* data i, 0 when it has none
  tradeOpen,  \* tradeOpen[i]: bar on which that trade was opened, 0 for none
  notified,   \* the trades the engine has passed to notify_trade, in order
  trades,     \* self.trades
  feed,       \* the preloaded series of a replayed run: feed[b][i] is the
              \* close of data i on bar b; <<>> when bars are drawn one by one
  outcomes,   \* per bar of the current run, what next() left behind
  first,      \* outcomes of the first of two runs, once the second has begun
  agree,      \* number of leading bars on which the two series agree
  files,      \* files[s]: the CSV file of symbol s in the stocks directory
  dates,      \* <<start_date, end_date>> of the call; 0 stands for None
  loaded,     \* the rows load_stock_data returned, <<>> before it returns
  exited,     \* sys.exit has been called: the process is over
  symbols,    \* the list of symbols of a sweep, <<>> outside a sweep
  cursor,     \* index in symbols of the symbol being processed
  all_results,     \* result records of the symbols processed so far
  all_trades,      \* their trade records, one after the other
  failed_symbols,  \* symbols whose iteration ended in an exception
  commission, \* commission of the broker, in thousandths of the value traded
  entry_prices,    \* RSIGapStrategy: self.entry_prices, 0 standing for None
  entry_bars,      \* RSIGapStrategy: self.entry_bars, 0 standing for None
  highest_prices,  \* RSIGapStrategy: self.highest_prices, 0 standing for None
  opens,      \* opens[i]: data.open[0] of data i
  rsi_list,   \* rsi_list[i]: the current value of the RSI indicator of data i
  universe,   \* data_collector: the symbols given to
              \* filter_high_volume_stocks_sequential
  max_symbols,         \* its argument max_symbols
  next_symbol,         \* index in universe of the next symbol of its loop
  high_volume_stocks,  \* its list high_volume_stocks
  downloads,  \* the symbols download_stock_data was called for, in order
  attempts,   \* what ticker.history gave on each attempt of the current call
  written,    \* the CSV files written: [symbol, call, attempt], in order
  result      \* what the last call of download_stock_data returned; <<>>
              \* stands for None

vars == <<n, start, bar, phase, hist, stance, lastReb, pos, cash, orders,
          stance0, err, position_size, tradeValue, tradeOpen, notified,
          trades, feed, outcomes, first, agree, files, dates, loaded, exited,
          symbols, cursor, all_results, all_trades, failed_symbols,
          commission, entry_prices, entry_bars, highest_prices, opens,
          rsi_list, universe, max_symbols, next_symbol, high_volume_stocks,
          downloads, attempts, written, result>>

\* the state of RSIGapStrategy and of the bars it reads
gapVars == <<entry_prices, entry_bars, highest_prices, opens, rsi_list>>

\* the state of the data collector
collectorVars == <<universe, max_symbols, next_symbol, high_volume_stocks,
                   downloads, attempts, written, result>>

\* the state of a sweep over several symbols
sweepVars == <<symbols, cursor, all_results, all_trades, failed_symbols>>

\* the state of the files and of the loader
loaderVars == <<files, dates, loaded, exited>>

Min(a, b) == IF a < b THEN a ELSE b
Max(a, b) == IF a > b THEN a ELSE b
Abs(a) == IF a < 0 THEN 0 - a ELSE a

\* int(num / den) for den # 0: truncation toward zero
Trunc(num, den) ==
  IF (num >= 0) = (den > 0)
    THEN Abs(num) \div Abs(den)
    ELSE 0 - (Abs(num) \div Abs(den))

\* closes an indicator can read: SMA(period) reads period bars,
\* ROC(period) reads the current close and the one period bars back
Window == Max(TrendPeriod, MomentumPeriod + 1)

Datas == 1..n

\* len(data)
DataLen(i) == Max(0, bar - start[i])

\* mutant: the current close is read one bar ahead in a preloaded series
CloseAgo_peek(i, k) ==
  IF k = 0 /\ bar < Len(feed) THEN feed[bar + 1][i]
  ELSE hist[i][Len(hist[i]) - k]

\* data.close[-k] (k = 0 is the current bar)
CloseAgo(i, k) == hist[i][Len(hist[i]) - k]

RECURSIVE SumLast(_, _)
SumLast(s, k) ==
  IF k = 0 \/ s = <<>> THEN 0
  ELSE s[Len(s)] + SumLast(SubSeq(s, 1, Len(s) - 1), k - 1)

\* ------------------------------------------------------------- indicators
\* trend_ma * period: the SMA has a value once period bars exist
SmaReady(i) == Len(hist[i]) >= TrendPeriod
SmaSum(i) == SumLast(hist[i], TrendPeriod)

\* bt.indicators.ROC is the plain ratio (close[0] - close[-p]) / close[-p]
\* (the percentage is ROC100); it has a value once p + 1 bars exist
RocReady(i) == Len(hist[i]) >= MomentumPeriod + 1
RocNum(i) == CloseAgo(i, 0) - CloseAgo(i, MomentumPeriod)
RocDen(i) == CloseAgo(i, MomentumPeriod)

\* momentum > 0   (a comparison with an indicator that has no value is False)
PositiveMomentum(i) ==
  /\ RocReady(i)
  /\ RocDen(i) # 0
  /\ IF RocDen(i) > 0 THEN RocNum(i) > 0 ELSE RocNum(i) < 0

\* momentum < -5
MomentumCrash(i) ==
  /\ RocReady(i)
  /\ RocDen(i) # 0
  /\ IF RocDen(i) > 0
       THEN RocNum(i) < MomentumCrashLevel * RocDen(i)
       ELSE RocNum(i) > MomentumCrashLevel * RocDen(i)

\* current_price > trend_ma * entry_threshold
BullishTrend(i) ==
  /\ SmaReady(i)
  /\ CloseAgo(i, 0) * TrendPeriod * 100 > SmaSum(i) * EntryThresholdPct

\* current_price < trend_ma * exit_threshold
BearishTrend(i) ==
  /\ SmaReady(i)
  /\ CloseAgo(i, 0) * TrendPeriod * 100 < SmaSum(i) * ExitThresholdPct

\* mutant: a bearish trend exits only without positive momentum
ShouldBeCash_needsWeakMomentum(i) ==
  (BearishTrend(i) /\ ~PositiveMomentum(i)) \/ MomentumCrash(i)

ShouldBeLong(i) == BullishTrend(i) /\ PositiveMomentum(i)
ShouldBeCash(i) == BearishTrend(i) \/ MomentumCrash(i)

\* ------------------------------------------------------------------ broker
RECURSIVE PositionsValue(_)
PositionsValue(k) ==
  IF k = 0 THEN 0
  ELSE PositionsValue(k - 1)
       + (IF pos[k] # 0 THEN pos[k] * CloseAgo(k, 0) ELSE 0)

\* self.broker.getvalue()
BrokerValue == cash + PositionsValue(n)

\* --------------------------------------------------------------- strategy
\* mutant: the cap of 20 is forgotten
MaxPositions_uncapped(ndatas) == ndatas

\* max_positions = min(20, len(self.datas))
MaxPositions(ndatas) == Min(FixedCap, ndatas)

\* mutant: the sizer invests the whole portfolio in one instrument
TargetShares_wholePortfolio(totalValue, ndatas, price) ==
  IF price = 0
    THEN [raised |-> TRUE, shares |-> 0]
    ELSE [raised |-> FALSE,
          shares |-> Trunc(totalValue * PositionPct, 100 * price)]

\* target_shares = int(total_value / max_positions * 0.95 / price);
\* a price of 0 raises ZeroDivisionError
TargetShares(totalValue, ndatas, price) ==
  IF price = 0
    THEN [raised |-> TRUE, shares |-> 0]
    ELSE [raised |-> FALSE,
          shares |-> Trunc(totalValue * PositionPct,
                           MaxPositions(ndatas) * 100 * price)]

BuyOrder(i, size) ==
  [data |-> i, kind |-> "buy", size |-> size, price |-> CloseAgo(i, 0)]

\* self.close(data=data): a sell of the size held when it is submitted
CloseOrder(i) ==
  [data |-> i, kind |-> "sell", size |-> pos[i], price |-> CloseAgo(i, 0)]

\* What a call leaves behind: the orders it submitted, the instrument's
\* stance, and whether it raised.
Result(ords, st, raised) == [orders |-> ords, stance |-> st, raised |-> raised]

EnterLongPosition(i, st) ==
  LET pre == IF pos[i] > 0 THEN <<CloseOrder(i)>> ELSE <<>>
      t == TargetShares(BrokerValue, n, CloseAgo(i, 0))
  IN  IF t.raised THEN Result(pre, st, TRUE)
      ELSE IF t.shares > 0
        THEN Result(pre \o <<BuyOrder(i, t.shares)>>, "long", FALSE)
        ELSE Result(pre, st, FALSE)

\* mutant: an exit forgets the instrument
ExitToCash_forgets(i, st) ==
  IF pos[i] > 0
    THEN Result(<<CloseOrder(i)>>, "none", FALSE)
    ELSE Result(<<>>, st, FALSE)

ExitToCash(i, st) ==
  IF pos[i] > 0
    THEN Result(<<CloseOrder(i)>>, "cash", FALSE)
    ELSE Result(<<>>, st, FALSE)

\* _rebalance_position for data i whose position_states entry is st
RebalancePosition(i, st) ==
  IF ShouldBeLong(i) /\ (pos[i] = 0 \/ st = "cash")
    THEN EnterLongPosition(i, st)
  ELSE IF ShouldBeCash(i) /\ (pos[i] > 0 \/ st = "long")
    THEN ExitToCash(i, st)
  ELSE Result(<<>>, st, FALSE)

\* mutant: the cadence is one bar short
ShouldRebalance_oneShort(i) == bar - lastReb[i] >= RebalanceDays - 1

ShouldRebalance(i) == bar - lastReb[i] >= RebalanceDays

\* mutant: the skip lets a data through one bar early
InsufficientData_oneEarly(i) == DataLen(i) < TrendPeriod - 1

\* the skip at the top of the loop body of next()
InsufficientData(i) == DataLen(i) < TrendPeriod

\* whether next() reaches _rebalance_position for data i
Evaluates(i) == ~InsufficientData(i) /\ ShouldRebalance(i)

\* one iteration of the loop of next()
Iteration(i) ==
  IF Evaluates(i) THEN RebalancePosition(i, stance[i])
  ELSE Result(<<>>, stance[i], FALSE)

\* the first iteration that raises, or n + 1: the loop stops there
RECURSIVE FirstRaise(_)
FirstRaise(k) ==
  IF k > n THEN n + 1
  ELSE IF Iteration(k).raised THEN k
  ELSE FirstRaise(k + 1)

\* orders submitted by iterations 1..k
RECURSIVE Submitted(_)
Submitted(k) ==
  IF k = 0 THEN <<>> ELSE Submitted(k - 1) \o Iteration(k).orders

\* HybridMomentumReversionStrategy.next
StrategyNext ==
  /\ phase = "next"
  /\ LET stop == FirstRaise(1)
     IN  /\ stance' = [i \in Datas |->
                         IF i < stop THEN Iteration(i).stance ELSE stance[i]]
         /\ lastReb' = [i \in Datas |->
                         IF i < stop /\ Evaluates(i) THEN bar ELSE lastReb[i]]
         /\ orders' = Submitted(Min(stop, n))
         /\ err' = IF stop <= n THEN "ZeroDivisionError" ELSE "none"
         /\ phase' = IF stop <= n THEN "aborted" ELSE "feed"
  /\ stance0' = stance
  /\ UNCHANGED <<n, start, bar, hist, pos, cash, position_size, tradeValue,
                 tradeOpen, notified, trades, feed, outcomes, first, agree,
                 loaderVars, sweepVars, commission,
                 gapVars, collectorVars>>

\* ------------------------------------------------------------ the engine
\* commission of an execution: the broker's rate times the value traded
\* (exact when the price is a multiple of 1000 or the rate is 0)
Commission(size, price) == (Abs(size) * price * commission) \div 1000

\* broker.check_submitted: each submitted order is pseudo-executed at the
\* price it was created at, against a running cash and cloned positions; it
\* is accepted when the running cash stays >= 0.  The running cash keeps the
\* value the pseudo-execution returned, also after a refusal.
RECURSIVE CheckSubmitted(_, _)
CheckSubmitted(ords, c) ==
  IF ords = <<>> THEN <<>>
  ELSE LET o == Head(ords)
           c2 == IF o.kind = "buy"
                   THEN c - o.size * o.price - Commission(o.size, o.price)
                   ELSE c + o.size * o.price - Commission(o.size, o.price)
       IN  (IF c2 >= 0 THEN <<o>> ELSE <<>>) \o CheckSubmitted(Tail(ords), c2)

\* Trade.update for an execution of `size` shares (negative for a sell) of
\* data d at `price` on bar `now`, the trade holding oldsize shares worth
\* oldvalue since bar oldopen.  A
\* price is kept as a fraction <<numerator, denominator>>.  The value of a
\* trade is that of the size it holds after the update: 0 once it is closed.
\* pnl and pnlcomm are those of a trade that is reduced by one execution.
TradeUpdate(d, oldsize, oldvalue, oldopen, size, price, now) ==
  LET newsize == oldsize + size
      grows == Abs(newsize) > Abs(oldsize)
      tprice == IF grows THEN <<oldvalue + size * price, newsize>>
                ELSE <<oldvalue, oldsize>>
      pnl == IF grows THEN 0
             ELSE (0 - size) * price - (oldvalue * (0 - size)) \div oldsize
  IN  [data |-> d,
       justopened |-> (oldsize = 0 /\ size # 0),
       isclosed |-> (oldsize # 0 /\ newsize = 0),
       dtopen |-> IF oldsize = 0 /\ size # 0 THEN now ELSE oldopen,
       dtclose |-> IF oldsize # 0 /\ newsize = 0 THEN now ELSE 0,
       oldsize |-> oldsize,
       size |-> newsize,
       price |-> tprice,
       value |-> (newsize * tprice[1]) \div tprice[2],
       pnl |-> pnl,
       pnlcomm |-> pnl - Commission(size, price)]

\* the broker's cash and positions, the value and opening bar of every open
\* trade, and the trades to notify, after the execution of one order of `size` shares
Filled(b, d, size, price) ==
  LET t == TradeUpdate(d, b.pos[d], b.value[d], b.dtopen[d], size, price,
                       b.now)
  IN  [cash |-> b.cash - size * price - Commission(size, price),
       pos |-> [b.pos EXCEPT ![d] = t.size],
       value |-> [b.value EXCEPT ![d] = t.value],
       dtopen |-> [b.dtopen EXCEPT ![d] = IF t.size = 0 THEN 0 ELSE t.dtopen],
       now |-> b.now,
       notes |-> IF t.justopened \/ t.isclosed
                   THEN Append(b.notes, t) ELSE b.notes]

\* execution of the accepted orders at the new bar's price px[data]: a buy
\* that the cash does not cover is refused (Margin), a sell always executes
RECURSIVE Execute(_, _, _)
Execute(ords, b, px) ==
  IF ords = <<>> THEN b
  ELSE LET o == Head(ords)
           amount == o.size * px[o.data]
       IN  IF o.kind = "buy"
             THEN IF b.cash - amount - Commission(o.size, px[o.data]) < 0
                    THEN Execute(Tail(ords), b, px)
                    ELSE Execute(Tail(ords),
                                 Filled(b, o.data, o.size, px[o.data]), px)
             ELSE Execute(Tail(ords),
                          Filled(b, o.data, 0 - o.size, px[o.data]), px)

\* data._name: the symbol the feed of a sweep was created for, else the
\* position of the data
DataName(i) == IF symbols # <<>> THEN symbols[cursor] ELSE i

\* mutant: a record is appended for every notification
NotifyTrade_everyEvent(log, trade) ==
  Append(log, [entry_date |-> trade.dtopen, exit_date |-> trade.dtclose,
               symbol |-> DataName(trade.data), entry_price |-> trade.price,
               exit_price |-> trade.price, size |-> trade.size,
               pnl |-> trade.pnl, return |-> <<0, 1>>,
               exit_reason |-> "strategy_exit"])

\* notify_trade: self.trades after the notification of `trade`.  Dates are
\* bar numbers; 'return' is a fraction.
NotifyTrade(log, trade) ==
  IF trade.isclosed
    THEN LET pnl_pct == IF trade.value # 0
                          THEN <<trade.pnlcomm * 100, Abs(trade.value)>>
                          ELSE <<0, 1>>
             exit_price ==
               IF trade.size # 0
                 THEN <<trade.price[1] * trade.size + trade.pnl * trade.price[2],
                        trade.price[2] * trade.size>>
                 ELSE trade.price
         IN  Append(log, [entry_date |-> trade.dtopen,
                          exit_date |-> trade.dtclose,
                          symbol |-> DataName(trade.data),
                          entry_price |-> trade.price,
                          exit_price |-> exit_price,
                          size |-> trade.size,
                          pnl |-> trade.pnl,
                          return |-> pnl_pct,
                          exit_reason |-> "strategy_exit"])
    ELSE log

\* self.trades after the notifications `notes`, in order
RECURSIVE NotifyAll(_, _)
NotifyAll(log, notes) ==
  IF notes = <<>> THEN log
  ELSE NotifyAll(NotifyTrade(log, Head(notes)), Tail(notes))

\* the closes the next bar can bring: the next bar of the preloaded series
\* if there is one
Feeds ==
  IF feed # <<>> THEN {feed[bar + 1]}
  ELSE IF n = 1 THEN [Datas -> Prices]
  ELSE IF n <= FixedCap THEN [Datas -> MultiPrices]
  ELSE IF n < CrowdCount THEN {[i \in Datas |-> p] : p \in MultiPrices}
  ELSE {[i \in Datas |-> IF i < n THEN p ELSE q] :
          p \in CrowdPrices, q \in CrowdPrices}

KeepLast(s, k) == IF Len(s) > k THEN SubSeq(s, Len(s) - k + 1, Len(s)) ELSE s

\* one iteration of the loop of cerebro.run(): the datas advance by a bar,
\* the broker processes the orders of the previous next() and the strategy is
\* notified of the trades they opened or closed, then next() is due
EngineAdvance ==
  /\ phase = "feed"
  /\ bar < MaxBars
  /\ \E px \in Feeds :
       LET done == Execute(CheckSubmitted(orders, cash),
                           [cash |-> cash, pos |-> pos, value |-> tradeValue,
                            dtopen |-> tradeOpen, now |-> bar + 1,
                            notes |-> <<>>], px)
       IN  /\ hist' = [i \in Datas |->
                         IF bar + 1 > start[i]
                           THEN KeepLast(Append(hist[i], px[i]), Window)
                           ELSE hist[i]]
           /\ cash' = done.cash
           /\ pos' = done.pos
           /\ tradeValue' = done.value
           /\ tradeOpen' = done.dtopen
           /\ notified' = notified \o done.notes
           /\ trades' = NotifyAll(trades, done.notes)
  /\ bar' = bar + 1
  /\ orders' = <<>>
  /\ phase' = "next"
  /\ UNCHANGED <<n, start, stance, lastReb, stance0, err, position_size,
                 feed, outcomes, first, agree, loaderVars, sweepVars,
                 commission,
                 gapVars, collectorVars>>

\* --------------------------------------------- a single call of the sizer
\* _enter_long_position(0, datas[0], value) called on a broker state: data 1
\* is the instrument entered
EnterLongCall ==
  /\ phase = "call"
  /\ LET r == EnterLongPosition(1, stance[1])
     IN  /\ orders' = r.orders
         /\ stance' = [stance EXCEPT ![1] = r.stance]
         /\ err' = IF r.raised THEN "ZeroDivisionError" ELSE "none"
  /\ stance0' = stance
  /\ phase' = "returned"
  /\ UNCHANGED <<n, start, bar, hist, lastReb, pos, cash, position_size,
                 tradeValue, tradeOpen, notified, trades, feed, outcomes, first,
                 agree, loaderVars, sweepVars, commission,
                 gapVars, collectorVars>>

\* -------------------------------------------------------------- the loader
\* required_columns of load_stock_data
RequiredColumns == {"Open", "High", "Low", "Close", "Volume"}

\* rows a file needs, scaled down from 100
MinFileRows == 3

\* A file is [exists, columns, rows]; a row is [date, cell], cell[c] being
\* <<>> for a missing value and <<v>> for the value v; dates are day numbers.
NoFile == [exists |-> FALSE, columns |-> {}, rows |-> <<>>]

\* what a call of load_stock_data ends with: sys.exit, or the rows returned
Exited == [exit |-> TRUE, df |-> <<>>]
Returned(df) == [exit |-> FALSE, df |-> df]

\* mutant: the volume is not checked
BadVolume_unchecked(df) == FALSE

\* (df['Volume'] < 0).any()
BadVolume(df) == \E k \in DOMAIN df : df[k].cell["Volume"][1] < 0

\* (df[['Open', 'High', 'Low', 'Close']] <= 0).any().any()
BadPrice(df) ==
  \E k \in DOMAIN df : \E c \in {"Open", "High", "Low", "Close"} :
    df[k].cell[c][1] <= 0

\* df.isnull().any().any()
HasNull(df) == \E k \in DOMAIN df : \E c \in RequiredColumns : df[k].cell[c] = <<>>

\* df[df.index >= start_dt] and df[df.index <= end_dt], each applied when the
\* date is given
DateFilter(rows, start_date, end_date) ==
  LET a == IF start_date # 0
             THEN SelectSeq(rows, LAMBDA r : r.date >= start_date) ELSE rows
  IN  IF end_date # 0 THEN SelectSeq(a, LAMBDA r : r.date <= end_date) ELSE a

\* df[required_columns]
Project(rows) ==
  [k \in DOMAIN rows |->
     [date |-> rows[k].date,
      cell |-> [c \in RequiredColumns |-> rows[k].cell[c]]]]

\* LocalDataLoader.load_stock_data
LoadStockData(f, start_date, end_date) ==
  IF ~f.exists THEN Exited
  ELSE IF RequiredColumns \ f.columns # {} THEN Exited
  ELSE IF f.rows = <<>> THEN Exited
  ELSE IF Len(f.rows) < MinFileRows THEN Exited
  ELSE LET filtered == DateFilter(f.rows, start_date, end_date)
           df == Project(filtered)
       IN  IF filtered = <<>> THEN Exited
           ELSE IF HasNull(df) THEN Exited
           ELSE IF BadPrice(df) THEN Exited
           ELSE IF BadVolume(df) THEN Exited
           ELSE Returned(df)

\* a call of load_stock_data for symbol 1
LoadCall ==
  /\ phase = "load"
  /\ LET r == LoadStockData(files[1], dates[1], dates[2])
     IN  /\ loaded' = r.df
         /\ exited' = r.exit
         /\ phase' = IF r.exit THEN "exited" ELSE "loaded"
  /\ UNCHANGED <<n, start, bar, hist, stance, lastReb, pos, cash, orders,
                 stance0, err, position_size, tradeValue, tradeOpen, notified,
                 trades, feed, outcomes, first, agree, files, dates, sweepVars,
                 commission,
                 gapVars, collectorVars>>

\* no sweep is going on
NoSweep ==
  /\ symbols = <<>>
  /\ cursor = 0
  /\ all_results = <<>>
  /\ all_trades = <<>>
  /\ failed_symbols = <<>>

\* no file is read
NoLoader ==
  /\ files = <<>>
  /\ dates = <<0, 0>>
  /\ loaded = <<>>
  /\ exited = FALSE

\* no gap strategy is running
NoGap ==
  /\ entry_prices = <<>>
  /\ entry_bars = <<>>
  /\ highest_prices = <<>>
  /\ opens = <<>>
  /\ rsi_list = <<>>

\* no data is being collected
NoCollector ==
  /\ universe = <<>>
  /\ max_symbols = 0
  /\ next_symbol = 0
  /\ high_volume_stocks = <<>>
  /\ downloads = <<>>
  /\ attempts = <<>>
  /\ written = <<>>
  /\ result = <<>>

\* ---------------------------------------------------------- specifications
Init ==
  /\ n \in InstrumentCounts
  /\ start \in IF n <= FixedCap THEN [1..n -> 0..MaxStart]
                ELSE {[i \in 1..n |-> 0]}
  /\ bar = 0
  /\ phase = "feed"
  /\ hist = [i \in 1..n |-> <<>>]
  /\ stance = [i \in 1..n |-> "none"]
  /\ lastReb = [i \in 1..n |-> 0]
  /\ pos = [i \in 1..n |-> 0]
  /\ cash = InitialCash
  /\ orders = <<>>
  /\ stance0 = stance
  /\ err = "none"
  /\ position_size = PositionSizeDefault
  /\ tradeValue = [i \in 1..n |-> 0]
  /\ tradeOpen = [i \in 1..n |-> 0]
  /\ notified = <<>>
  /\ trades = <<>>
  /\ feed = <<>>
  /\ outcomes = <<>>
  /\ first = <<>>
  /\ agree = 0
  /\ NoLoader
  /\ NoSweep
  /\ commission = 0
  /\ NoGap
  /\ NoCollector

Next == EngineAdvance \/ StrategyNext

Spec == Init /\ [][Next]_vars

\* ------------------------------------------------ two runs, one after the other
\* bars of a replayed run, and the closes of its series
PairBars == 5
PairPrices == {4, 6}

\* mutant: one broker is shared by the runs of a sweep
RunStart_sharedBroker(initial_cash) ==
  /\ bar' = 0
  /\ phase' = "feed"
  /\ hist' = [i \in Datas |-> <<>>]
  /\ stance' = [i \in Datas |-> "none"]
  /\ lastReb' = [i \in Datas |-> 0]
  /\ pos' = [i \in Datas |-> 0]
  /\ cash' = IF all_results = <<>> THEN initial_cash ELSE cash
  /\ orders' = <<>>
  /\ stance0' = [i \in Datas |-> "none"]
  /\ err' = "none"
  /\ tradeValue' = [i \in Datas |-> 0]
  /\ tradeOpen' = [i \in Datas |-> 0]
  /\ notified' = <<>>
  /\ trades' = <<>>

\* the state a run of one data starts from: a new engine with
\* broker.setcash(initial_cash), no bar delivered
RunStart(initial_cash) ==
  /\ bar' = 0
  /\ phase' = "feed"
  /\ hist' = [i \in Datas |-> <<>>]
  /\ stance' = [i \in Datas |-> "none"]
  /\ lastReb' = [i \in Datas |-> 0]
  /\ pos' = [i \in Datas |-> 0]
  /\ cash' = initial_cash
  /\ orders' = <<>>
  /\ stance0' = [i \in Datas |-> "none"]
  /\ err' = "none"
  /\ tradeValue' = [i \in Datas |-> 0]
  /\ tradeOpen' = [i \in Datas |-> 0]
  /\ notified' = <<>>
  /\ trades' = <<>>

\* the engine delivers the next bar of the preloaded series
FeedAdvance ==
  /\ bar < Len(feed)
  /\ EngineAdvance

\* the next bar of a run whose outcomes are recorded
PairAdvance ==
  /\ Len(outcomes) = bar
  /\ FeedAdvance

\* what next() left behind on the current bar: position_states,
\* last_rebalance and the orders it submitted
Observe ==
  /\ phase = "feed"
  /\ Len(outcomes) < bar
  /\ outcomes' = Append(outcomes, [stance |-> stance, lastReb |-> lastReb,
                         orders |-> orders])
  /\ UNCHANGED <<n, start, bar, phase, hist, stance, lastReb, pos, cash,
                 orders, stance0, err, position_size, tradeValue, tradeOpen,
                 notified, trades, feed, first, agree, loaderVars, sweepVars,
                 commission,
                 gapVars, collectorVars>>

\* the first run is over; a second run starts from the same initial broker
\* state on a series that agrees with the first on its first k bars
SecondRun ==
  /\ first = <<>>
  /\ bar = Len(feed)
  /\ Len(outcomes) = bar
  /\ \E k \in 0..PairBars :
       \E f \in [1..PairBars -> [Datas -> PairPrices]] :
         /\ \A b \in 1..k : f[b] = feed[b]
         /\ k < PairBars => f[k + 1] # feed[k + 1]
         /\ feed' = f
         /\ agree' = k
  /\ first' = outcomes
  /\ outcomes' = <<>>
  /\ RunStart(InitialCash)
  /\ UNCHANGED <<n, start, position_size, loaderVars, sweepVars, commission,
                 gapVars, collectorVars>>

InitPair ==
  /\ n = 1
  /\ start = [i \in 1..n |-> 0]
  /\ bar = 0
  /\ phase = "feed"
  /\ hist = [i \in 1..n |-> <<>>]
  /\ stance = [i \in 1..n |-> "none"]
  /\ lastReb = [i \in 1..n |-> 0]
  /\ pos = [i \in 1..n |-> 0]
  /\ cash = InitialCash
  /\ orders = <<>>
  /\ stance0 = stance
  /\ err = "none"
  /\ position_size = PositionSizeDefault
  /\ tradeValue = [i \in 1..n |-> 0]
  /\ tradeOpen = [i \in 1..n |-> 0]
  /\ notified = <<>>
  /\ trades = <<>>
  /\ feed \in [1..PairBars -> [1..n -> PairPrices]]
  /\ outcomes = <<>>
  /\ first = <<>>
  /\ agree = 0
  /\ NoLoader
  /\ NoSweep
  /\ commission = 0
  /\ NoGap
  /\ NoCollector

NextPair == PairAdvance \/ StrategyNext \/ Observe \/ SecondRun

SpecPair == InitPair /\ [][NextPair]_vars

\* --------------------------------------------------- the multi-symbol sweep
\* data period of the configuration file: first and last day
ConfigPeriod == <<1, 9>>

\* validate_date_range: "exit" for a range outside the configured period or
\* not increasing, "TypeError" for a comparison with None
ValidateDateRange(start_date, end_date) ==
  IF start_date = 0 THEN "TypeError"
  ELSE IF start_date < ConfigPeriod[1] THEN "exit"
  ELSE IF end_date = 0 THEN "TypeError"
  ELSE IF end_date > ConfigPeriod[2] THEN "exit"
  ELSE IF start_date >= end_date THEN "exit"
  ELSE "ok"

\* initial_cash of a sweep, in thousandths of the money unit
MilliCash == InitialCash * 1000

\* the closes of the rows, as the series of a run of one data
CloseSeries(df) == [b \in DOMAIN df |-> [i \in {1} |-> df[b].cell["Close"][1]]]

\* the loop body of run_multi_stock_backtest_parallel up to the start of
\* cerebro.run(): a new engine with its own broker, cash and commission,
\* a new loader, the date check and the load of the symbol's file
SweepOpen ==
  /\ phase = "sweep"
  /\ cursor <= Len(symbols)
  /\ LET s == symbols[cursor]
         v == ValidateDateRange(dates[1], dates[2])
         r == LoadStockData(files[s], dates[1], dates[2])
     IN  IF v = "TypeError"
           THEN \* except Exception: the symbol has failed, the loop goes on
                /\ failed_symbols' = Append(failed_symbols, s)
                /\ cursor' = cursor + 1
                /\ UNCHANGED <<bar, phase, hist, stance, lastReb, pos, cash,
                               orders, stance0, err, tradeValue, tradeOpen,
                               notified, trades, feed, loaded, exited,
                               commission>>
         ELSE IF v = "exit" \/ r.exit
           THEN \* SystemExit is not an Exception: it leaves the function
                /\ exited' = TRUE
                /\ phase' = "exited"
                /\ UNCHANGED <<bar, hist, stance, lastReb, pos, cash, orders,
                               stance0, err, tradeValue, tradeOpen, notified,
                               trades, feed, loaded, cursor, failed_symbols,
                               commission>>
         ELSE /\ loaded' = r.df
              /\ feed' = CloseSeries(r.df)
              /\ commission' = 1
              /\ RunStart(MilliCash)
              /\ UNCHANGED <<exited, cursor, failed_symbols>>
  /\ UNCHANGED <<n, start, position_size, outcomes, first, agree, files, dates,
                 symbols, all_results, all_trades, gapVars, collectorVars>>

\* the loop body after cerebro.run(): the symbol's result and trades are
\* collected
SweepCollect ==
  /\ phase = "feed"
  /\ symbols # <<>>
  /\ bar = Len(feed)
  /\ LET final_value == BrokerValue
         profit == final_value - MilliCash
     IN  all_results' = Append(all_results,
                               [symbol |-> symbols[cursor],
                                initial_value |-> MilliCash,
                                final_value |-> final_value,
                                profit |-> profit,
                                total_return |-> <<profit, MilliCash>>,
                                total_trades |-> Len(trades)])
  /\ all_trades' = all_trades \o trades
  /\ cursor' = cursor + 1
  /\ phase' = "sweep"
  /\ UNCHANGED <<n, start, bar, hist, stance, lastReb, pos, cash, orders,
                 stance0, err, position_size, tradeValue, tradeOpen, notified,
                 trades, feed, outcomes, first, agree, loaderVars, symbols,
                 failed_symbols, commission,
                 gapVars, collectorVars>>

\* Files load_stock_data is called on: up to MaxFileRows rows dated 1, 2, ...
\* with valid cells (volume 0 on the first day), then at most one cell
\* replaced by a missing, zero or negative value, or one column left out, or
\* a column added; or no file.
MaxFileRows == 4
GoodRow(d, cols) ==
  [date |-> d,
   cell |-> [c \in cols |-> IF c = "Volume" THEN <<d - 1>> ELSE <<d + 3>>]]
GoodFile(len, cols) ==
  [exists |-> TRUE, columns |-> cols, rows |-> [d \in 1..len |-> GoodRow(d, cols)]]
BadCells == {<<>>, <<0>>, <<-1>>}
Spoiled(f, k, c, v) ==
  [f EXCEPT !.rows = [@ EXCEPT ![k] = [@ EXCEPT !.cell = [@ EXCEPT ![c] = v]]]]
LoaderFiles ==
  {NoFile}
    \cup {GoodFile(len, RequiredColumns) : len \in 0..MaxFileRows}
    \cup {GoodFile(len, RequiredColumns \cup {"Adj Close"}) : len \in 0..MaxFileRows}
    \cup {GoodFile(len, RequiredColumns \ {c}) :
            len \in 0..MaxFileRows, c \in RequiredColumns}
    \cup UNION {{Spoiled(GoodFile(len, RequiredColumns), k, c, v) :
                   k \in 1..len, c \in RequiredColumns, v \in BadCells} :
                len \in 1..MaxFileRows}
LoaderDates == 0..(MaxFileRows + 1)

InitLoader ==
  /\ n = 1
  /\ start = [i \in 1..n |-> 0]
  /\ bar = 0
  /\ phase = "load"
  /\ hist = [i \in 1..n |-> <<>>]
  /\ stance = [i \in 1..n |-> "none"]
  /\ lastReb = [i \in 1..n |-> 0]
  /\ pos = [i \in 1..n |-> 0]
  /\ cash = InitialCash
  /\ orders = <<>>
  /\ stance0 = stance
  /\ err = "none"
  /\ position_size = PositionSizeDefault
  /\ tradeValue = [i \in 1..n |-> 0]
  /\ tradeOpen = [i \in 1..n |-> 0]
  /\ notified = <<>>
  /\ trades = <<>>
  /\ feed = <<>>
  /\ outcomes = <<>>
  /\ first = <<>>
  /\ agree = 0
  /\ files \in [{1} -> LoaderFiles]
  /\ dates \in LoaderDates \X LoaderDates
  /\ loaded = <<>>
  /\ exited = FALSE
  /\ NoSweep
  /\ commission = 0
  /\ NoGap
  /\ NoCollector

NextLoader == LoadCall

SpecLoader == InitLoader /\ [][NextLoader]_vars

\* Sweeps: lists of up to SweepLen symbols out of two, each with a file of
\* six days (a gaining, a losing or a flat series, prices in thousandths) or
\* a file with one defect; the dates cover the file, miss it, are reversed,
\* or start with None.
SweepLen == 3
SweepSeries ==
  { <<4000, 4000, 6000, 4000, 4000, 6000>>,
    <<4000, 4000, 6000, 6000, 4000, 4000>>,
    <<4000, 4000, 4000, 4000, 4000, 4000>> }
SeriesFile(ser) ==
  [exists |-> TRUE, columns |-> RequiredColumns,
   rows |-> [d \in DOMAIN ser |->
               [date |-> d,
                cell |-> [c \in RequiredColumns |->
                            IF c = "Volume" THEN <<1>> ELSE <<ser[d]>>]]]]
SweepFiles ==
  {SeriesFile(ser) : ser \in SweepSeries}
    \cup {NoFile,
          [SeriesFile(<<4000, 4000, 4000, 4000>>) EXCEPT
             !.columns = @ \ {"Low"}],
          Spoiled(SeriesFile(<<4000, 4000, 4000, 4000>>), 2, "High", <<>>),
          Spoiled(SeriesFile(<<4000, 4000, 4000, 4000>>), 3, "Open", <<0>>),
          Spoiled(SeriesFile(<<4000, 4000, 4000, 4000>>), 4, "Volume", <<-1>>)}
SweepDates == {<<1, 6>>, <<7, 9>>, <<6, 1>>, <<0, 6>>}

InitSweep ==
  /\ n = 1
  /\ start = [i \in 1..n |-> 0]
  /\ bar = 0
  /\ phase = "sweep"
  /\ hist = [i \in 1..n |-> <<>>]
  /\ stance = [i \in 1..n |-> "none"]
  /\ lastReb = [i \in 1..n |-> 0]
  /\ pos = [i \in 1..n |-> 0]
  /\ cash = 0
  /\ orders = <<>>
  /\ stance0 = stance
  /\ err = "none"
  /\ position_size = PositionSizeDefault
  /\ tradeValue = [i \in 1..n |-> 0]
  /\ tradeOpen = [i \in 1..n |-> 0]
  /\ notified = <<>>
  /\ trades = <<>>
  /\ feed = <<>>
  /\ outcomes = <<>>
  /\ first = <<>>
  /\ agree = 0
  /\ files \in [{1, 2} -> SweepFiles]
  /\ dates \in SweepDates
  /\ loaded = <<>>
  /\ exited = FALSE
  /\ symbols \in UNION {[1..len -> {1, 2}] : len \in 1..SweepLen}
  /\ cursor = 1
  /\ all_results = <<>>
  /\ all_trades = <<>>
  /\ failed_symbols = <<>>
  /\ commission = 0
  /\ NoGap
  /\ NoCollector

NextSweep == SweepOpen \/ FeedAdvance \/ StrategyNext \/ SweepCollect

SpecSweep == InitSweep /\ [][NextSweep]_vars

\* ------------------------------------------------- the worked entry example
\* closes of the example, bar index 0 first
ExampleCloses == <<10, 10, 10, 12>>

\* Runs of one data over series of that length made of the example's closes
InitExample ==
  /\ n = 1
  /\ start = [i \in 1..n |-> 0]
  /\ bar = 0
  /\ phase = "feed"
  /\ hist = [i \in 1..n |-> <<>>]
  /\ stance = [i \in 1..n |-> "none"]
  /\ lastReb = [i \in 1..n |-> 0]
  /\ pos = [i \in 1..n |-> 0]
  /\ cash = InitialCash
  /\ orders = <<>>
  /\ stance0 = stance
  /\ err = "none"
  /\ position_size = PositionSizeDefault
  /\ tradeValue = [i \in 1..n |-> 0]
  /\ tradeOpen = [i \in 1..n |-> 0]
  /\ notified = <<>>
  /\ trades = <<>>
  /\ feed \in [DOMAIN ExampleCloses ->
                 [1..n -> {ExampleCloses[b] : b \in DOMAIN ExampleCloses}]]
  /\ outcomes = <<>>
  /\ first = <<>>
  /\ agree = 0
  /\ NoLoader
  /\ NoSweep
  /\ commission = 0
  /\ NoGap
  /\ NoCollector

NextExample == FeedAdvance \/ StrategyNext

SpecExample == InitExample /\ [][NextExample]_vars

\* Broker states the sizer is called on: cash, number of datas, the current
\* close (the same for every data), and shares of data 2 already held, so
\* that the total value is cash + held * close.  Money is in cents here.
SizerCash == {0, 1, 19, 20, 21, 100, 2321, 100000, 10000000}
SizerCounts == {1, 2, 3, 19, 20, 21, 40}
SizerPrices == {-2321, -1, 0, 1, 2, 7, 95, 2321}
SizerHeld == {0, 3}
\* values given to the parameter position_size, in percent
SizerPositionSizes == {50, PositionSizeDefault, 100}

InitSizer ==
  /\ n \in SizerCounts
  /\ start = [i \in 1..n |-> 0]
  /\ bar = 1
  /\ phase = "call"
  /\ \E p \in SizerPrices : hist = [i \in 1..n |-> <<p>>]
  /\ stance = [i \in 1..n |-> "none"]
  /\ lastReb = [i \in 1..n |-> 0]
  /\ \E h \in SizerHeld :
       pos = [i \in 1..n |-> IF i = 2 THEN h ELSE 0]
  /\ cash \in SizerCash
  /\ orders = <<>>
  /\ stance0 = stance
  /\ err = "none"
  /\ position_size \in SizerPositionSizes
  /\ tradeValue = [i \in 1..n |-> 0]
  /\ tradeOpen = [i \in 1..n |-> 0]
  /\ notified = <<>>
  /\ trades = <<>>
  /\ feed = <<>>
  /\ outcomes = <<>>
  /\ first = <<>>
  /\ agree = 0
  /\ NoLoader
  /\ NoSweep
  /\ commission = 0
  /\ NoGap
  /\ NoCollector

NextSizer == EnterLongCall

SpecSizer == InitSizer /\ [][NextSizer]_vars

\* -------------------------------------------------------- the gap strategy
\* RSIGapStrategy (src/strategies/rsi_gap_strategy.py).  Bars have an open and
\* a close; a market order submitted in next() is executed at the open of the
\* next bar.  The RSI comes from the indicator library: its value on a bar is
\* an input.  Prices are positive, so no division by zero is modelled.  The
\* fields entry_attempts, entry_successes, debug_entries and orders are
\* written and never read; they are left out.

\* max_hold_days, scaled down from 15
MaxHoldDays == 3
\* profit_target 0.02 in percent, trailing_stop 0.015 in thousandths
ProfitTargetPct == 2
TrailingStopPerMille == 15
\* the entry test: gap < 0.10 and 15 < rsi_value < 60
GapLimitPct == 10
RsiLow == 15
RsiHigh == 60
\* bars of a run of the gap strategy
GapBars == 6

\* mutant: the holding time is tested one bar late
HoldExpired_oneLate(held) == held > MaxHoldDays

\* len(self) - self.entry_bars[i] >= self.p.max_hold_days
HoldExpired(held) == held >= MaxHoldDays

\* mutant: the holding time is tested before the profit target
ExitReason_holdFirst(price, entry, high, held) ==
  IF HoldExpired(held) THEN "max_hold_days"
  ELSE IF price * 100 >= entry * (100 + ProfitTargetPct) THEN "profit_target"
  ELSE IF price * 1000 <= high * (1000 - TrailingStopPerMille) THEN "trailing_stop"
  ELSE "none"

\* the branch the if / elif chain of a held position takes ("none": no branch)
ExitReason(price, entry, high, held) ==
  IF price * 100 >= entry * (100 + ProfitTargetPct) THEN "profit_target"
  ELSE IF price * 1000 <= high * (1000 - TrailingStopPerMille) THEN "trailing_stop"
  ELSE IF HoldExpired(held) THEN "max_hold_days"
  ELSE "none"

\* What an iteration of the loop of next() leaves behind for data i
GapResult(ords, entry, entrybar, high, recs) ==
  [orders |-> ords, entry_price |-> entry, entry_bar |-> entrybar,
   highest |-> high, records |-> recs]

GapKeep(i) ==
  GapResult(<<>>, entry_prices[i], entry_bars[i], highest_prices[i], <<>>)

\* the branch of a data without a position
GapEntry(i) ==
  IF DataLen(i) < 2 THEN GapKeep(i)
  ELSE IF /\ 100 * (opens[i] - CloseAgo(i, 1)) < GapLimitPct * CloseAgo(i, 1)
          /\ RsiLow < rsi_list[i]
          /\ rsi_list[i] < RsiHigh
    THEN LET size == Trunc(cash, opens[i] * n)
         IN  IF size > 0
               THEN GapResult(<<BuyOrder(i, size)>>, opens[i], bar, opens[i],
                              <<>>)
               ELSE GapKeep(i)
  ELSE GapKeep(i)

\* the branch of a data with a position
GapExit(i) ==
  LET price == CloseAgo(i, 0)
      high == IF price > highest_prices[i] THEN price ELSE highest_prices[i]
      reason == ExitReason(price, entry_prices[i], high, bar - entry_bars[i])
  IN  IF reason = "none"
        THEN GapResult(<<>>, entry_prices[i], entry_bars[i], high, <<>>)
        ELSE GapResult(<<CloseOrder(i)>>, entry_prices[i], entry_bars[i], high,
                       <<[symbol |-> DataName(i),
                          entry_price |-> entry_prices[i],
                          exit_price |-> price,
                          return |-> <<(price - entry_prices[i]) * 100,
                                       entry_prices[i]>>,
                          exit_reason |-> reason]>>)

GapIteration(i) == IF pos[i] = 0 THEN GapEntry(i) ELSE GapExit(i)

RECURSIVE GapOrders(_)
GapOrders(k) == IF k = 0 THEN <<>> ELSE GapOrders(k - 1) \o GapIteration(k).orders
RECURSIVE GapRecords(_)
GapRecords(k) ==
  IF k = 0 THEN <<>> ELSE GapRecords(k - 1) \o GapIteration(k).records

\* RSIGapStrategy.next
GapNext ==
  /\ phase = "next"
  /\ orders' = GapOrders(n)
  /\ trades' = trades \o GapRecords(n)
  /\ entry_prices' = [i \in Datas |-> GapIteration(i).entry_price]
  /\ entry_bars' = [i \in Datas |-> GapIteration(i).entry_bar]
  /\ highest_prices' = [i \in Datas |-> GapIteration(i).highest]
  /\ phase' = "feed"
  /\ UNCHANGED <<n, start, bar, hist, stance, lastReb, pos, cash, stance0, err,
                 position_size, tradeValue, tradeOpen, notified, feed, outcomes,
                 first, agree, loaderVars, sweepVars, commission, opens,
                 rsi_list, collectorVars>>

\* Bars of the gap strategy, money in thousandths: opens with and without a
\* gap of 10%, closes that reach the profit target (103 after 100), the
\* trailing stop (99 after a high of 101) or neither, an RSI outside and
\* inside the entry band.  Two datas share the open and the RSI.
GapOpens == {100000, 112000}
GapCloses == {99000, 100000, 101000, 103000}
RsiValues == {10, 35, 70}
GapFeeds ==
  IF n = 1
    THEN {[open |-> [i \in Datas |-> o], close |-> [i \in Datas |-> c],
           rsi |-> [i \in Datas |-> r]] :
            o \in GapOpens, c \in GapCloses, r \in RsiValues}
    ELSE {[open |-> [i \in Datas |-> o], close |-> c,
           rsi |-> [i \in Datas |-> r]] :
            o \in GapOpens, c \in [Datas -> {100000, 103000}],
            r \in {10, 35}}

\* one iteration of the loop of cerebro.run() for the gap strategy: the datas
\* advance by a bar, the broker executes the orders of the previous next() at
\* the open, then next() is due
GapAdvance ==
  /\ phase = "feed"
  /\ bar < GapBars
  /\ \E px \in GapFeeds :
       LET done == Execute(CheckSubmitted(orders, cash),
                           [cash |-> cash, pos |-> pos, value |-> tradeValue,
                            dtopen |-> tradeOpen, now |-> bar + 1,
                            notes |-> <<>>], px.open)
       IN  /\ hist' = [i \in Datas |->
                         KeepLast(Append(hist[i], px.close[i]), Window)]
           /\ opens' = px.open
           /\ rsi_list' = px.rsi
           /\ cash' = done.cash
           /\ pos' = done.pos
           /\ tradeValue' = done.value
           /\ tradeOpen' = done.dtopen
           /\ notified' = notified \o done.notes
  /\ bar' = bar + 1
  /\ orders' = <<>>
  /\ phase' = "next"
  /\ UNCHANGED <<n, start, stance, lastReb, stance0, err, position_size,
                 trades, feed, outcomes, first, agree, loaderVars, sweepVars,
                 commission, entry_prices, entry_bars, highest_prices,
                 collectorVars>>

\* a run of one data without commission (run_single_stock_backtest), or of
\* two datas with the commission of run_multi_stock_backtest_parallel
InitGap ==
  /\ n \in {1, 2}
  /\ start = [i \in 1..n |-> 0]
  /\ bar = 0
  /\ phase = "feed"
  /\ hist = [i \in 1..n |-> <<>>]
  /\ stance = [i \in 1..n |-> "none"]
  /\ lastReb = [i \in 1..n |-> 0]
  /\ pos = [i \in 1..n |-> 0]
  /\ cash = MilliCash
  /\ orders = <<>>
  /\ stance0 = stance
  /\ err = "none"
  /\ position_size = PositionSizeDefault
  /\ tradeValue = [i \in 1..n |-> 0]
  /\ tradeOpen = [i \in 1..n |-> 0]
  /\ notified = <<>>
  /\ trades = <<>>
  /\ feed = <<>>
  /\ outcomes = <<>>
  /\ first = <<>>
  /\ agree = 0
  /\ NoLoader
  /\ NoSweep
  /\ commission = IF n = 1 THEN 0 ELSE 1
  /\ entry_prices = [i \in 1..n |-> 0]
  /\ entry_bars = [i \in 1..n |-> 0]
  /\ highest_prices = [i \in 1..n |-> 0]
  /\ opens = [i \in 1..n |-> 0]
  /\ rsi_list = [i \in 1..n |-> 0]
  /\ NoCollector

NextGap == GapAdvance \/ GapNext

SpecGap == InitGap /\ [][NextGap]_vars

\* ------------------------------------------------------ the data collector
\* download_stock_data and filter_high_volume_stocks_sequential
\* (src/data_collector.py).  What ticker.history gives on an attempt is an
\* input: it raises, or returns a frame of `rows` rows with `columns` whose
\* Volume column has the mean avg_volume.  to_csv is taken to succeed.

\* max_retries, scaled down from 3
MaxRetries == 2
\* rows a download needs, scaled down from 100
MinDataPoints == 3
\* min_avg_volume
MinAvgVolume == 1000000

\* data.rename(columns={..., 'Adj Close': 'Adj_Close'})
Rename(columns) ==
  (columns \ {"Adj Close"})
    \cup (IF "Adj Close" \in columns THEN {"Adj_Close"} ELSE {})

\* mutant: one attempt too many
RetriesLeft_oneMore(made) == made <= MaxRetries

\* for attempt in range(max_retries): another attempt is due after `made`
RetriesLeft(made) == made < MaxRetries

\* the checks of one attempt: no exception, data not empty, at least the
\* minimum of rows, every required column there after the renaming
AttemptPasses(f) ==
  /\ ~f.raises
  /\ f.rows # 0
  /\ ~(f.rows < MinDataPoints)
  /\ \A col \in {"Open", "High", "Low", "Close", "Volume"} :
       col \in Rename(f.columns)

\* the dictionary download_stock_data returns for the frame f of symbol s
\* (the csv path is the symbol's; dates and median are left out)
DownloadResult(s, f) ==
  [symbol |-> s, data_points |-> f.rows, avg_volume |-> f.avg_volume,
   csv_path |-> s]

\* mutant: the quota is tested one entry late
QuotaFilled_oneLate(count, quota) == count > quota

\* len(high_volume_stocks) >= max_symbols
QuotaFilled(count, quota) == count >= quota

\* the head of the loop of filter_high_volume_stocks_sequential: the loop
\* ends, or download_stock_data is called for the next symbol
FilterLoop ==
  /\ phase = "filter"
  /\ IF next_symbol > Len(universe)
          \/ QuotaFilled(Len(high_volume_stocks), max_symbols)
       THEN /\ phase' = "filtered"
            /\ UNCHANGED <<downloads, attempts, result>>
       ELSE /\ downloads' = Append(downloads, universe[next_symbol])
            /\ UNCHANGED <<attempts, result>>
            /\ phase' = "download"
  /\ UNCHANGED <<n, start, bar, hist, stance, lastReb, pos, cash, orders,
                 stance0, err, position_size, tradeValue, tradeOpen, notified,
                 trades, feed, outcomes, first, agree, loaderVars, sweepVars,
                 commission, gapVars, universe, max_symbols, next_symbol,
                 high_volume_stocks, written>>

\* frames ticker.history can give: an exception, no row, too few rows, a
\* column missing, or a full frame with a mean volume below or at the minimum
Frames ==
  {[raises |-> TRUE, rows |-> 0, columns |-> {}, avg_volume |-> 0],
   [raises |-> FALSE, rows |-> 0, columns |-> RequiredColumns,
    avg_volume |-> 0],
   [raises |-> FALSE, rows |-> MinDataPoints - 1, columns |-> RequiredColumns,
    avg_volume |-> MinAvgVolume],
   [raises |-> FALSE, rows |-> MinDataPoints,
    columns |-> RequiredColumns \ {"Volume"}, avg_volume |-> 0]}
    \cup {[raises |-> FALSE, rows |-> MinDataPoints,
           columns |-> RequiredColumns \cup {"Adj Close"}, avg_volume |-> v] :
            v \in {MinAvgVolume - 1, MinAvgVolume}}

\* one iteration of the loop of download_stock_data
DownloadAttempt ==
  /\ phase = "download"
  /\ RetriesLeft(Len(attempts))
  /\ \E f \in Frames :
       /\ attempts' = Append(attempts, f)
       /\ IF AttemptPasses(f)
            THEN /\ written' = Append(written,
                                      [symbol |-> downloads[Len(downloads)],
                                       call |-> Len(downloads),
                                       attempt |-> Len(attempts) + 1])
                 /\ result' = <<DownloadResult(downloads[Len(downloads)], f)>>
                 /\ phase' = "downloaded"
            ELSE UNCHANGED <<written, result, phase>>
  /\ UNCHANGED <<n, start, bar, hist, stance, lastReb, pos, cash, orders,
                 stance0, err, position_size, tradeValue, tradeOpen, notified,
                 trades, feed, outcomes, first, agree, loaderVars, sweepVars,
                 commission, gapVars, universe, max_symbols, next_symbol,
                 high_volume_stocks, downloads>>

\* the loop of download_stock_data is over: return None
DownloadGiveUp ==
  /\ phase = "download"
  /\ ~RetriesLeft(Len(attempts))
  /\ result' = <<>>
  /\ phase' = "downloaded"
  /\ UNCHANGED <<n, start, bar, hist, stance, lastReb, pos, cash, orders,
                 stance0, err, position_size, tradeValue, tradeOpen, notified,
                 trades, feed, outcomes, first, agree, loaderVars, sweepVars,
                 commission, gapVars, universe, max_symbols, next_symbol,
                 high_volume_stocks, downloads, attempts, written>>

\* the rest of the loop body of filter_high_volume_stocks_sequential; the
\* locals of the call and of the iteration are dead after it
FilterCollect ==
  /\ phase = "downloaded"
  /\ high_volume_stocks' =
       IF result # <<>> /\ result[1].avg_volume >= MinAvgVolume
         THEN Append(high_volume_stocks, result[1])
         ELSE high_volume_stocks
  /\ next_symbol' = next_symbol + 1
  /\ attempts' = <<>>
  /\ result' = <<>>
  /\ phase' = "filter"
  /\ UNCHANGED <<n, start, bar, hist, stance, lastReb, pos, cash, orders,
                 stance0, err, position_size, tradeValue, tradeOpen, notified,
                 trades, feed, outcomes, first, agree, loaderVars, sweepVars,
                 commission, gapVars, universe, max_symbols, downloads,
                 written>>

\* Lists of up to CollectorLen symbols out of two, a symbol possibly listed
\* twice, and quotas up to MaxQuota
CollectorLen == 2
MaxQuota == 1

InitCollector ==
  /\ n = 1
  /\ start = [i \in 1..n |-> 0]
  /\ bar = 0
  /\ phase = "filter"
  /\ hist = [i \in 1..n |-> <<>>]
  /\ stance = [i \in 1..n |-> "none"]
  /\ lastReb = [i \in 1..n |-> 0]
  /\ pos = [i \in 1..n |-> 0]
  /\ cash = 0
  /\ orders = <<>>
  /\ stance0 = stance
  /\ err = "none"
  /\ position_size = PositionSizeDefault
  /\ tradeValue = [i \in 1..n |-> 0]
  /\ tradeOpen = [i \in 1..n |-> 0]
  /\ notified = <<>>
  /\ trades = <<>>
  /\ feed = <<>>
  /\ outcomes = <<>>
  /\ first = <<>>
  /\ agree = 0
  /\ NoLoader
  /\ NoSweep
  /\ commission = 0
  /\ NoGap
  /\ universe \in UNION {[1..len -> {1, 2}] : len \in 0..CollectorLen}
  /\ max_symbols \in 0..MaxQuota
  /\ next_symbol = 1
  /\ high_volume_stocks = <<>>
  /\ downloads = <<>>
  /\ attempts = <<>>
  /\ written = <<>>
  /\ result = <<>>

NextCollector ==
  FilterLoop \/ DownloadAttempt \/ DownloadGiveUp \/ FilterCollect

SpecCollector == InitCollector /\ [][NextCollector]_vars

\* the collector is a sequential program: it takes its next step
SpecCollectorFair == SpecCollector /\ WF_vars(NextCollector)

\* ------------------------------------------------------------------ claims
\* The formulas below restate the decision quantities from the raw closes,
\* independently of the operators of the model.

\* next() has just returned on bar `bar`
AfterNext == phase = "feed" /\ bar > 0

\* the orders among ords that are for data i
OrdersFor(ords, i) == SelectSeq(ords, LAMBDA o : o.data = i)
BuysFor(ords, i) == SelectSeq(ords, LAMBDA o : o.data = i /\ o.kind = "buy")
ClosesFor(ords, i) == SelectSeq(ords, LAMBDA o : o.data = i /\ o.kind = "sell")

\* data i has the bars the trend average needs
HasHistory(i) == Len(hist[i]) >= TrendPeriod

\* data i was evaluated by the next() that has just returned
EvaluatedNow(i) == AfterNext /\ HasHistory(i) /\ lastReb[i] = bar

ClaimClose(i) == hist[i][Len(hist[i])]
ClaimBack(i) == hist[i][Len(hist[i]) - MomentumPeriod]
ClaimSum(i) == SumLast(hist[i], TrendPeriod)
\* close > trend_ma * 1.01, close < trend_ma * 0.99
ClaimBullish(i) == ClaimClose(i) * TrendPeriod * 100 > ClaimSum(i) * 101
ClaimBearish(i) == ClaimClose(i) * TrendPeriod * 100 < ClaimSum(i) * 99
\* the indicator's value (close[0] - close[-p]) / close[-p] against 0 and -5
ClaimMomentumPositive(i) == ClaimClose(i) > ClaimBack(i)
ClaimMomentumBelowMinus5(i) == ClaimClose(i) - ClaimBack(i) < (0 - 5) * ClaimBack(i)
\* the percentage (close[0] - close[-p]) / close[-p] * 100 against -5
ClaimPercentBelowMinus5(i) ==
  (ClaimClose(i) - ClaimBack(i)) * 100 < (0 - 5) * ClaimBack(i)
ClaimShouldBeLong(i) == ClaimBullish(i) /\ ClaimMomentumPositive(i)
ClaimShouldBeCash(i) == ClaimBearish(i) \/ ClaimMomentumBelowMinus5(i)

\* C1: on a bar where a data has fewer than trend_period bars, next() submits
\* no buy and no close for it and leaves its stance and its last-rebalance
\* counter unchanged.
C1_SkipInvariant ==
  [][phase = "next" =>
       \A i \in Datas :
         bar - start[i] < TrendPeriod =>
           /\ stance'[i] = stance[i]
           /\ lastReb'[i] = lastReb[i]
           /\ OrdersFor(orders', i) = <<>>]_vars

\* C1 witness: next() has run on a bar where the rebalance cadence was due
\* (rebalance_days bars since the counter's 0) for a data with too few bars.
C1_Witness ==
  /\ AfterNext
  /\ \E i \in Datas :
       /\ Len(hist[i]) > 0
       /\ Len(hist[i]) < TrendPeriod
       /\ bar - lastReb[i] >= RebalanceDays

\* C2: the number of datas whose stance is 'long' never exceeds
\* min(20, number of datas).
C2_CapInvariant ==
  Cardinality({i \in Datas : stance[i] = "long"}) <= Min(20, n)

\* C3: a buy is submitted for a data only in an evaluation where
\* should_be_long holds, the stance was 'cash' or 'none' and no shares are
\* held.
C3_EntryPrecondition ==
  AfterNext =>
    \A i \in Datas :
      BuysFor(orders, i) # <<>> =>
        /\ EvaluatedNow(i)
        /\ ClaimShouldBeLong(i)
        /\ stance0[i] \in {"cash", "none"}
        /\ pos[i] = 0

\* C4: an evaluation where should_be_long is false, should_be_cash holds and
\* the stance is 'long' or shares are held submits a close of the full
\* position and leaves the stance 'cash'.
C4_ExitTransition ==
  \A i \in Datas :
    ( /\ EvaluatedNow(i)
      /\ ~ClaimShouldBeLong(i)
      /\ ClaimShouldBeCash(i)
      /\ (stance0[i] = "long" \/ pos[i] > 0) )
    => /\ \E k \in DOMAIN orders :
            orders[k].data = i /\ orders[k].kind = "sell"
              /\ orders[k].size = pos[i]
       /\ stance[i] = "cash"

\* C5: an evaluation of a data that holds shares and whose momentum, the
\* percentage change of the close over momentum_period bars, is below -5
\* submits a close, also when the close is above trend_ma * entry_threshold.
C5_MomentumCrashOverride ==
  \A i \in Datas :
    (EvaluatedNow(i) /\ pos[i] > 0 /\ ClaimPercentBelowMinus5(i))
      => ClosesFor(orders, i) # <<>>

\* C6: an evaluation of a data that is long and holds shares, with the close
\* below trend_ma * 0.99, submits a close of the full position whatever the
\* momentum.
C6_BearishExit ==
  \A i \in Datas :
    (EvaluatedNow(i) /\ stance0[i] = "long" /\ pos[i] > 0 /\ ClaimBearish(i))
      => /\ ClosesFor(orders, i) = <<[data |-> i, kind |-> "sell",
                                      size |-> pos[i], price |-> ClaimClose(i)]>>
         /\ BuysFor(orders, i) = <<>>

\* C6 witness: such an exit has been submitted with positive momentum.
C6_Witness ==
  \E i \in Datas :
    /\ EvaluatedNow(i) /\ stance0[i] = "long" /\ pos[i] > 0
    /\ ClaimBearish(i) /\ ClaimMomentumPositive(i)
    /\ ClosesFor(orders, i) # <<>>

\* the stance the evaluation aims at for data i, if any
AtTargetStance(i) ==
  \/ ClaimShouldBeLong(i) /\ stance[i] = "long"
  \/ ~ClaimShouldBeLong(i) /\ ClaimShouldBeCash(i) /\ stance[i] = "cash"

\* C7: once a data is in the target stance, evaluating it again on the same
\* bar, before any order is filled, submits nothing and leaves the stance.
C7_IdempotentNoOp ==
  \A i \in Datas :
    (EvaluatedNow(i) /\ AtTargetStance(i))
      => RebalancePosition(i, stance[i]) = Result(<<>>, stance[i], FALSE)

\* C8: a data is evaluated only when at least rebalance_days bars have passed
\* since its counter; every evaluation sets the counter to the current bar,
\* with or without an order; orders are submitted only in an evaluation.
C8_RebalanceCadence ==
  [][phase = "next" =>
       \A i \in Datas :
         /\ lastReb'[i] # lastReb[i] =>
              lastReb'[i] = bar /\ bar - lastReb[i] >= RebalanceDays
         /\ (bar - start[i] >= TrendPeriod /\ bar - lastReb[i] >= RebalanceDays)
              => lastReb'[i] = bar
         /\ (OrdersFor(orders', i) # <<>> \/ stance'[i] # stance[i])
              => lastReb'[i] = bar /\ lastReb[i] # bar]_vars

\* C8 witness: a data that holds shares from an earlier evaluation has just
\* been evaluated again, its counter is the current bar, and nothing was
\* submitted.
C8_Witness ==
  \E i \in Datas :
    /\ EvaluatedNow(i) /\ pos[i] > 0 /\ stance[i] = "long"
    /\ bar >= TrendPeriod + RebalanceDays
    /\ orders = <<>>

\* floor((V / min(20, N)) * 0.95 / p) for p > 0
ClaimShares(v, count, p) ==
  (v * 95) \div ((IF count < 20 THEN count ELSE 20) * 100 * p)

\* cash plus the market value of the shares held (of data 2, the only data
\* held when the sizer is called)
ClaimValue == cash + pos[IF n >= 2 THEN 2 ELSE 1] * ClaimClose(1)

\* C9: for total value V > 0, N >= 1 datas and price p > 0 the entry buys
\* floor((V / min(20, N)) * 0.95 / p) shares, V being the broker's total
\* value; 100000 at 23.21 gives 4093 shares for one data and 2046 for two.
C9_SizingFormula ==
  (phase = "returned" /\ ClaimValue > 0 /\ ClaimClose(1) > 0) =>
    LET k == ClaimShares(ClaimValue, n, ClaimClose(1))
    IN  /\ err = "none"
        /\ k > 0 => orders = <<[data |-> 1, kind |-> "buy", size |-> k,
                                price |-> ClaimClose(1)]>>
        /\ k = 0 => orders = <<>>
        /\ (cash = 10000000 /\ pos[IF n >= 2 THEN 2 ELSE 1] = 0
              /\ ClaimClose(1) = 2321 /\ n = 1) => orders[1].size = 4093
        /\ (cash = 10000000 /\ pos[IF n >= 2 THEN 2 ELSE 1] = 0
              /\ ClaimClose(1) = 2321 /\ n = 2) => orders[1].size = 2046

\* C9 witness: a buy sized from a total value that includes held shares, in
\* a universe larger than the fixed cap.
C9_Witness ==
  /\ phase = "returned" /\ n > 20 /\ pos[2] > 0 /\ ClaimClose(1) > 0
  /\ orders # <<>> /\ orders[1].kind = "buy"
  /\ orders[1].size < (cash * 95) \div (100 * ClaimClose(1))

\* C10: with a price <= 0 the sizer yields no buy and raises nothing.
C10_NonPositivePrice ==
  (phase = "returned" /\ ClaimClose(1) <= 0) =>
    /\ err = "none"
    /\ orders = <<>>

\* cash plus the market value of every position, from the raw closes
RECURSIVE ClaimHeldValue(_)
ClaimHeldValue(k) ==
  IF k = 0 THEN 0
  ELSE ClaimHeldValue(k - 1)
       + (IF pos[k] = 0 THEN 0 ELSE pos[k] * ClaimClose(k))
ClaimTotalValue == cash + ClaimHeldValue(n)

\* C11: every buy submitted by next() has shares * close <=
\* total value / min(20, number of datas), the total value being the
\* broker's value on the bar of that evaluation.
C11_DiversificationBound ==
  AfterNext =>
    \A k \in DOMAIN orders :
      orders[k].kind = "buy" =>
        orders[k].size * ClaimClose(orders[k].data)
            * (IF n < 20 THEN n ELSE 20) <= ClaimTotalValue

\* C11 witness: a buy has been submitted while another data holds shares, so
\* that the total value is more than the cash.
C11_Witness ==
  /\ AfterNext
  /\ \E k \in DOMAIN orders : \E j \in Datas :
       /\ orders[k].kind = "buy" /\ orders[k].data # j /\ pos[j] > 0
       /\ orders[k].size * ClaimClose(orders[k].data) > cash \div 4

\* C12: for every value f of the parameter position_size the entry buys
\* floor((V / min(20, N)) * f / p) shares (V > 0, p > 0).
C12_ConfiguredFraction ==
  (phase = "returned" /\ ClaimValue > 0 /\ ClaimClose(1) > 0) =>
    LET k == (ClaimValue * position_size)
               \div ((IF n < 20 THEN n ELSE 20) * 100 * ClaimClose(1))
    IN  /\ k > 0 => orders = <<[data |-> 1, kind |-> "buy", size |-> k,
                                price |-> ClaimClose(1)]>>
        /\ k = 0 => orders = <<>>

\* C13: every stance starts as 'none'; a stance never returns to 'none',
\* becomes 'cash' only from 'long', and becomes 'long' only from 'none' or
\* 'cash'.
C13_StanceLifecycle ==
  /\ \A i \in Datas : stance[i] = "none"
  /\ [][\A i \in Datas :
          stance'[i] # stance[i] =>
            /\ stance'[i] # "none"
            /\ stance'[i] = "cash" => stance[i] = "long"
            /\ stance'[i] = "long" => stance[i] \in {"none", "cash"}]_vars

\* C13 witness: a data that went from 'none' to 'long' and on to 'cash' has
\* just become 'long' again.
C13_Witness ==
  /\ AfterNext
  /\ \E i \in Datas : stance0[i] = "cash" /\ stance[i] = "long"

\* the closed trades among those passed to notify_trade
ClosedNotified == SelectSeq(notified, LAMBDA t : t.isclosed)

\* position value of a closed trade at its entry: the shares it held times
\* its entry price
ClaimEntryValue(t) == (t.oldsize * t.price[1]) \div t.price[2]

\* C14: the 'return' of the k-th trade record is its 'pnl' divided by the
\* absolute position value at entry of the k-th closed trade, times 100.
C14_TradeReturn ==
  \A k \in DOMAIN trades \cap DOMAIN ClosedNotified :
    trades[k].return[1] * Abs(ClaimEntryValue(ClosedNotified[k]))
      = trades[k].pnl * 100 * trades[k].return[2]

\* C15: self.trades has one record per closed trade passed to notify_trade
\* and none for any other event; a step never shortens the log or changes a
\* record in it; every exit_reason is 'strategy_exit'.
C15_TradeLog ==
  /\ [](/\ Len(trades) = Len(ClosedNotified)
        /\ \A k \in DOMAIN trades : trades[k].exit_reason = "strategy_exit")
  /\ [][/\ Len(trades') >= Len(trades)
        /\ SubSeq(trades', 1, Len(trades)) = trades
        /\ Len(trades') - Len(trades)
             = Len(SelectSeq(notified', LAMBDA t : t.isclosed))
                 - Len(ClosedNotified)]_vars

\* C15 witness: two trades have been closed and recorded, and notify_trade
\* has also been called for trades that were opened.
C15_Witness ==
  /\ Len(trades) >= 2
  /\ Len(notified) > Len(trades)
  /\ \E k \in DOMAIN notified : notified[k].justopened

\* C16: a close is submitted for a data only in an evaluation where
\* should_be_cash holds (close < trend_ma * 0.99 or momentum < -5).
C16_CloseOnlyOnExitSignal ==
  AfterNext =>
    \A i \in Datas :
      ClosesFor(orders, i) # <<>> => EvaluatedNow(i) /\ ClaimShouldBeCash(i)

\* C17: when the series of two runs from the same initial broker state agree
\* on the first N bars, the runs leave the same stances, the same
\* last-rebalance counters and the same submitted orders on each of those
\* bars.
C17_NoLookahead ==
  first # <<>> =>
    \A b \in 1..Len(outcomes) : b <= agree => outcomes[b] = first[b]

\* C17 witness: the second run is over; its series left the first one after
\* bar N, orders were submitted both on a bar up to N and after it, and the
\* runs ended differently.
C17_Witness ==
  /\ first # <<>>
  /\ Len(outcomes) = PairBars
  /\ agree < PairBars
  /\ \E b \in 1..agree : outcomes[b].orders # <<>>
  /\ \E b \in (agree + 1)..PairBars : first[b].orders # <<>>
  /\ outcomes[PairBars] # first[PairBars]

\* C20: the rows load_stock_data returns, for any start_date and end_date,
\* have a value in each of the five columns, every open, high, low and close
\* > 0, every volume >= 0, and are at least the minimum number of rows.
C20_ValidatedFeed ==
  phase = "loaded" =>
    /\ \A k \in DOMAIN loaded :
         /\ \A c \in {"Open", "High", "Low", "Close", "Volume"} :
              Len(loaded[k].cell[c]) = 1
         /\ \A c \in {"Open", "High", "Low", "Close"} :
              loaded[k].cell[c][1] > 0
         /\ loaded[k].cell["Volume"][1] >= 0
    /\ Len(loaded) >= MinFileRows

\* the trade records collected from the k-th result of the sweep
RECURSIVE ClaimTradesBefore(_)
ClaimTradesBefore(k) ==
  IF k = 0 THEN 0 ELSE ClaimTradesBefore(k - 1) + all_results[k].total_trades
ClaimTradesOf(k) ==
  SubSeq(all_trades, ClaimTradesBefore(k - 1) + 1, ClaimTradesBefore(k))

\* C18: every simulation of the sweep starts with a broker that holds
\* exactly initial_cash and no position, and a symbol's final value, profit
\* and trades are the same wherever it stands in the list and whatever the
\* runs before it gained or lost.
C18_IndependentRuns ==
  /\ (symbols # <<>> /\ phase = "feed" /\ bar = 0) =>
       /\ cash = InitialCash * 1000
       /\ \A i \in Datas : pos[i] = 0
       /\ trades = <<>>
  /\ \A j \in DOMAIN all_results : \A k \in DOMAIN all_results :
       all_results[j].symbol = all_results[k].symbol =>
         /\ all_results[j] = all_results[k]
         /\ ClaimTradesOf(j) = ClaimTradesOf(k)

\* C18 witness: a symbol was simulated before and after another symbol whose
\* run lost money, and made a trade and a profit both times.
C18_Witness ==
  /\ Len(all_results) = 3
  /\ all_results[1].symbol = all_results[3].symbol
  /\ all_results[2].symbol # all_results[1].symbol
  /\ all_results[2].profit < 0
  /\ all_results[3].profit > 0
  /\ ClaimTradesOf(3) # <<>>

\* the file has a defect load_stock_data meets for the dates given: no file,
\* a required column missing, no row in the date range, or in that range a
\* missing value, a price <= 0 or a volume < 0
ClaimDefect(f, d) ==
  \/ ~f.exists
  \/ {"Open", "High", "Low", "Close", "Volume"} \ f.columns # {}
  \/ ~\E k \in DOMAIN f.rows : d[1] <= f.rows[k].date /\ f.rows[k].date <= d[2]
  \/ \E k \in DOMAIN f.rows :
       /\ d[1] <= f.rows[k].date /\ f.rows[k].date <= d[2]
       /\ \E c \in {"Open", "High", "Low", "Close", "Volume"} :
            \/ f.rows[k].cell[c] = <<>>
            \/ c # "Volume" /\ f.rows[k].cell[c][1] <= 0
            \/ c = "Volume" /\ f.rows[k].cell[c][1] < 0

\* C19: when the file of the symbol the sweep has come to has such a defect
\* (the dates being a valid range), the iteration ends in sys.exit: nothing
\* is loaded or simulated, the symbol is not added to failed_symbols, and no
\* step follows, so that no later symbol is simulated.
C19_FailFast ==
  /\ [][(/\ phase = "sweep" /\ cursor <= Len(symbols)
          /\ 1 <= dates[1] /\ dates[1] < dates[2] /\ dates[2] <= 9
          /\ ClaimDefect(files[symbols[cursor]], dates))
        => /\ exited' /\ phase' = "exited"
           /\ loaded' = loaded /\ bar' = bar
           /\ failed_symbols' = failed_symbols
           /\ all_results' = all_results
           /\ cursor' = cursor]_vars
  /\ [][~exited]_vars

\* C19 witness: the sweep simulated a symbol, then exited on the next symbol,
\* whose file is there with all its columns, and a symbol is left.
C19_Witness ==
  /\ exited
  /\ Len(all_results) = 1
  /\ cursor = 2
  /\ Len(symbols) = 3
  /\ files[symbols[2]].exists
  /\ files[symbols[2]].columns = {"Open", "High", "Low", "Close", "Volume"}
  /\ failed_symbols = <<>>

\* C21: with trend_period = 3 and closes 10, 10, 10, 12 of a single data
\* with stance 'none' and no shares, after next() on bar index 3 the trend
\* average read was 10, the trend is bullish, the momentum positive, and a buy
\* of the sizer's share count has been submitted.
C21_EntryExample ==
  ( /\ AfterNext /\ bar = Len(ExampleCloses) /\ TrendPeriod = 3
    /\ feed = [b \in DOMAIN ExampleCloses |-> [i \in {1} |-> ExampleCloses[b]]]
    /\ stance0[1] = "none" /\ pos[1] = 0 )
  => /\ SmaSum(1) = 10 * TrendPeriod
     /\ BullishTrend(1)
     /\ PositiveMomentum(1)
     /\ orders = <<[data |-> 1, kind |-> "buy",
                    size |-> ClaimShares(ClaimTotalValue, 1, 12),
                    price |-> 12]>>

\* C22: the momentum the rebalance decision compares with 0 and with -5 is
\* the percentage (close[0] - close[-momentum_period]) /
\* close[-momentum_period] * 100: it is below -5 exactly when the close fell
\* by more than 5% over momentum_period bars, and above 0 exactly when the
\* close rose.
C22_MomentumPercentage ==
  \A i \in Datas :
    Len(hist[i]) >= MomentumPeriod + 1 =>
      /\ MomentumCrash(i) <=> ClaimPercentBelowMinus5(i)
      /\ PositiveMomentum(i) <=> ClaimClose(i) > ClaimBack(i)

\* next() is about to evaluate data i
ClaimDue(i) == bar - start[i] >= TrendPeriod /\ bar - lastReb[i] >= RebalanceDays
\* the entry condition and the exit condition of an evaluation of data i
ClaimEntryApplies(i) ==
  ClaimShouldBeLong(i) /\ stance[i] \in {"cash", "none"} /\ pos[i] = 0
ClaimExitApplies(i) ==
  ClaimShouldBeCash(i) /\ (stance[i] = "long" \/ pos[i] > 0)

\* C23: an evaluation of a data for which neither the entry condition nor
\* the exit condition applies submits no order for it and leaves its stance;
\* when that is so for every data evaluated on the bar, no order is submitted
\* and no stance changes; next() never changes the trade log.
C23_NoActionFrame ==
  [][phase = "next" =>
       /\ \A i \in Datas :
            (ClaimDue(i) /\ ~ClaimEntryApplies(i) /\ ~ClaimExitApplies(i))
              => OrdersFor(orders', i) = <<>> /\ stance'[i] = stance[i]
       /\ (\A i \in Datas :
             ClaimDue(i) => ~ClaimEntryApplies(i) /\ ~ClaimExitApplies(i))
            => orders' = <<>> /\ stance' = stance
       /\ trades' = trades]_vars

\* the evaluation of data i that has just returned called the sizer, and
\* the share count it computed is <= 0
ClaimDegenerateEntry(i) ==
  /\ EvaluatedNow(i)
  /\ ClaimShouldBeLong(i)
  /\ (pos[i] = 0 \/ stance0[i] = "cash")
  /\ ClaimClose(i) > 0
  /\ ClaimShares(ClaimTotalValue, n, ClaimClose(i)) <= 0

\* C24: an entry whose computed share count is <= 0 places no order of any
\* kind for the data, does not make its stance 'long', and raises no error.
C24_DegenerateSizing ==
  \A i \in Datas :
    ClaimDegenerateEntry(i) =>
      /\ OrdersFor(orders, i) = <<>>
      /\ stance[i] = stance0[i]
      /\ stance[i] # "long" \/ stance0[i] = "long"
      /\ err = "none"

\* the exit conditions of RSIGapStrategy for data i, from the raw closes:
\* profit target, trailing stop (the highest price counts the current close)
\* and holding time
ClaimTargetHit(i) == ClaimClose(i) * 100 >= entry_prices[i] * 102
ClaimStopHit(i) ==
  ClaimClose(i) * 1000
    <= (IF ClaimClose(i) > highest_prices[i] THEN ClaimClose(i)
        ELSE highest_prices[i]) * 985
ClaimHeldLong(i) == bar - entry_bars[i] >= MaxHoldDays
ClaimReason(i) ==
  IF ClaimTargetHit(i) THEN "profit_target"
  ELSE IF ClaimStopHit(i) THEN "trailing_stop"
  ELSE "max_hold_days"

\* C25: next() of RSIGapStrategy submits a close for a data only while it
\* holds a position and one of the three exit conditions holds, at most one
\* per data; it appends one trade record per close, whose exit_reason is the
\* first of profit_target, trailing_stop, max_hold_days whose condition
\* holds; no other step changes the trade log.
C25_GapExits ==
  [][IF phase = "next"
       THEN /\ SubSeq(trades', 1, Len(trades)) = trades
            /\ \A i \in Datas :
                 LET recs == SelectSeq(SubSeq(trades', Len(trades) + 1,
                                              Len(trades')),
                                       LAMBDA r : r.symbol = i)
                 IN  /\ Len(ClosesFor(orders', i)) <= 1
                     /\ Len(recs) = Len(ClosesFor(orders', i))
                     /\ ClosesFor(orders', i) # <<>> =>
                          /\ pos[i] # 0
                          /\ ClaimTargetHit(i) \/ ClaimStopHit(i)
                               \/ ClaimHeldLong(i)
                          /\ recs[1].exit_reason = ClaimReason(i)
            /\ Len(trades') - Len(trades)
                 = Len(SelectSeq(orders', LAMBDA o : o.kind = "sell"))
       ELSE trades' = trades]_vars

\* C25 witness: a position held for max_hold_days bars or more has just
\* been closed at the profit target.
C25_Witness ==
  /\ AfterNext
  /\ entry_bars # <<>>
  /\ trades # <<>>
  /\ trades[Len(trades)].exit_reason = "profit_target"
  /\ \E i \in Datas :
       /\ ClosesFor(orders, i) # <<>>
       /\ bar - entry_bars[i] >= MaxHoldDays

\* C29: on every bar on which a data holds a position and the bars since
\* its entry bar are >= max_hold_days, next() of RSIGapStrategy submits a
\* close for it.
C29_BoundedHolding ==
  \A i \in Datas :
    (AfterNext /\ entry_bars # <<>> /\ pos[i] # 0 /\ ClaimHeldLong(i))
      => ClosesFor(orders, i) # <<>>

\* C29 witness: a position that reached neither the profit target nor the
\* trailing stop has just been closed for its holding time.
C29_Witness ==
  /\ AfterNext
  /\ entry_bars # <<>>
  /\ \E i \in Datas :
       /\ pos[i] # 0
       /\ bar - entry_bars[i] = MaxHoldDays
       /\ ClosesFor(orders, i) # <<>>
       /\ trades[Len(trades)].exit_reason = "max_hold_days"

\* C26: in a run of several datas, when next() is about to evaluate a data
\* (the broker having filled or rejected the orders of earlier bars), its
\* stance is 'long' if and only if it holds more than zero shares.
C26_StanceMatchesHoldings ==
  (n >= 2 /\ phase = "next") =>
    \A i \in Datas :
      ClaimDue(i) => (stance[i] = "long" <=> pos[i] > 0)

ClaimPass(f) ==
  /\ ~f.raises
  /\ f.rows >= MinDataPoints
  /\ {"Open", "High", "Low", "Close", "Volume"} \subseteq f.columns
\* the CSV files written by the current call of download_stock_data
ClaimCallWrites == SelectSeq(written, LAMBDA w : w.call = Len(downloads))

RECURSIVE ClaimSubseq(_, _)
ClaimSubseq(s, t) ==
  IF s = <<>> THEN TRUE
  ELSE IF t = <<>> THEN FALSE
  ELSE IF Head(s) = Head(t) THEN ClaimSubseq(Tail(s), Tail(t))
  ELSE ClaimSubseq(s, Tail(t))

====
